---- MODULE Spec2Model ----
(***************************************************************************)
(* Binance FIX API client: request/response correlation (Client.Call,      *)
(* Client.send, waiter.wait), the connection lifecycle (Client.Start,      *)
(* Client.Stop, the authorized flag), the session engine's callbacks, the   *)
(* event distribution (handleNewsMessage, handleSubscriptions, the         *)
(* emitter, TradeStreamHandler), the fire-and-forget sends and the         *)
(* execution report decoder.                                               *)
(***************************************************************************)
EXTENDS Integers, Sequences, FiniteSets, TLC

\* ---------------------------------------------------------------- bounds
NumCalls == 2          \* invocations of Client.Call, each on a goroutine of its own
NumIds == 2            \* distinct caller-chosen request ids
LogonTimeoutTicks == 3 \* clock ticks that make up the logonTimeout of Start
MaxStops == 2          \* invocations of Client.Stop over a run
NumListeners == 2      \* listener registrations made on the emitter or the trade handler
MaxInbound == 2        \* unsolicited inbound messages handled over a run
MaxNotices == 1        \* News messages handled over a run
MaxQty == 2            \* largest quantity carried by an execution report
MaxSends == 2          \* fire-and-forget sends over a run
MaxLogons == 2         \* invocations of GetLogonRawData over a run
MaxTrades == 1         \* trade messages over a run of SpecTradeCallbacks

Calls == 1..NumCalls   \* an invocation, and the call object its send allocates
Ids == 1..NumIds

NoCall == 0            \* nil *call / absent map entry
NoId == 0              \* no request id
Delivery == -1         \* the session engine's delivery goroutine, as a mutex holder

\* ---------------------------------------------------------------- values
ErrClosed == "connection is closed"
ErrSend == "quickfix.Send failed"
ErrStart == "initiator.Start failed"
ErrLogonTimeout == "logon timed out"
DeadlineExceeded == "context deadline exceeded"
Canceled == "context canceled"
NilErr == "nil"
NoMsg == [reqId |-> NoId, headers |-> FALSE]   \* nil *quickfix.Message

CtxStates == {"live", DeadlineExceeded, Canceled}
CtxErrors == {DeadlineExceeded, Canceled}

\* ----------------------------------------------------------------- strings
\* A Go string is the sequence of its characters.
EmptyString == <<>>
KwMaintenance == <<"m", "a", "i", "n", "t", "e", "n", "a", "n", "c", "e">>
KwReconnect == <<"r", "e", "c", "o", "n", "n", "e", "c", "t">>
KwBMD == <<"B", "M", "D">>

\* config.go:33,41  the SenderCompID of the order-entry and of the market-data endpoint
BOETRADE == <<"B", "O", "E", "T", "R", "A", "D", "E">>
BMDWATCH == <<"B", "M", "D", "W", "A", "T", "C", "H">>
SenderIds == {BOETRADE, BMDWATCH}

UpperLetters == <<"A", "B", "C", "D", "E", "F", "G", "H", "I", "J", "K", "L", "M",
                  "N", "O", "P", "Q", "R", "S", "T", "U", "V", "W", "X", "Y", "Z">>
LowerLetters == <<"a", "b", "c", "d", "e", "f", "g", "h", "i", "j", "k", "l", "m",
                  "n", "o", "p", "q", "r", "s", "t", "u", "v", "w", "x", "y", "z">>
Digits == <<"0", "1", "2", "3", "4", "5", "6", "7", "8", "9">>

\* strings.ToLower
ToLowerChar(ch) ==
    IF \E i \in DOMAIN UpperLetters : UpperLetters[i] = ch
    THEN LowerLetters[CHOOSE i \in DOMAIN UpperLetters : UpperLetters[i] = ch]
    ELSE ch
ToLower(str) == [i \in 1..Len(str) |-> ToLowerChar(str[i])]

\* strings.Contains
Contains(str, substr) ==
    \E i \in 0..(Len(str) - Len(substr)) :
        \A j \in 1..Len(substr) : str[i + j] = substr[j]

\* A tag of a message body: present with a value, or absent.
Field(v) == [has |-> TRUE, val |-> v]
AbsentField == [has |-> FALSE, val |-> EmptyString]

\* ---------------------------------------------------------- event topics
MaintenanceTopic == "maintenance"
ReconnectNeededTopic == "reconnect_needed"
ExecutionReportTopic == "execution_report"
TradeStreamTopic == "trade_stream"
Topics == {MaintenanceTopic, ReconnectNeededTopic, ExecutionReportTopic, TradeStreamTopic}

Listeners == 1..NumListeners   \* a registration: one call of On or of Subscribe
NoInbound == [msgType |-> "", body |-> AbsentField]   \* no message in hand
Symbols == {"BTCUSDT", "ETHUSDT"}

\* ------------------------------------------------- execution report values
\* part_002:8-17  OrderStatus
OrderStatusFilled == "FILLED"
OrderStatusRejected == "REJECTED"

ErrFieldMissing == "Conditionally Required Field Missing"
ErrMalformed == "Incorrect data format for value"
ErrParseInt == "strconv.ParseInt: invalid syntax"

\* A tag whose value is taken as it is (never searched or parsed).
Tag(v) == [has |-> TRUE, val |-> v]
NoTag == [has |-> FALSE, val |-> ""]

\* A numeric tag: absent, well-formed with its value, or malformed.
Num(v) == [has |-> TRUE, ok |-> TRUE, val |-> v]
BadNum == [has |-> TRUE, ok |-> FALSE, val |-> 0]
NoNum == [has |-> FALSE, ok |-> TRUE, val |-> 0]

\* execution_report.go:20-36  Order{}
EmptyOrder == [Symbol |-> "", OrderID |-> 0, Price |-> 0, OrderQty |-> 0, CumQty |-> 0,
               Status |-> "", TimeInForce |-> "", Type |-> "", Side |-> ""]
NoReport == [status |-> NoTag, text |-> NoTag, symbol |-> NoTag, orderID |-> AbsentField,
             price |-> NoNum, orderQty |-> NoNum, cumQty |-> NoNum,
             timeInForce |-> NoTag, ordType |-> NoTag, side |-> NoTag]
\* part_004:82-85  Trade{}
EmptyTrade == [Symbol |-> "", TradeID |-> 0, Price |-> 0, Quantity |-> 0]
NotDecoded == [done |-> FALSE, order |-> EmptyOrder, err |-> NilErr]
NoSend == [op |-> "", args |-> <<>>, msg |-> NoMsg, sent |-> FALSE, err |-> NilErr]

\* crypto.go:23-24
ErrNilPrivateKeyValue == "nil private key value"
ErrInvalidEd25519Key == "invalid key ed25519 key"
\* Key bytes of length zero.
EmptyData == [block |-> "", der |-> ""]
NotLoaded == [done |-> FALSE, key |-> "", err |-> NilErr]

VARIABLES
    isConnected,  \* Client.isConnected (atomic.Bool)
    initiator,    \* state of Client.initiator: "created", "running", "stopped"
    mu,           \* Client.mu: 0 when free, else the holder
    pending,      \* Client.pending: request id -> call (NoCall when absent)
    request,      \* call.request, by call: the outbound message
    response,     \* call.response, by call
    done,         \* call.done, by call: [buf: values buffered (capacity 1), closed]
    wire,         \* calls whose request the session engine accepted and the peer has not answered
    pc,           \* by invocation: position inside Client.Call
    tid,          \* by invocation: the id argument of Call
    ctx,          \* by invocation: state of the ctx argument, as wait sees it
    result,       \* by invocation: what Call returned, [resp, err]
    dpc,          \* delivery goroutine: position inside FromApp
    dmsg,         \* delivery goroutine: the inbound message
    startPc,      \* position inside Client.Start
    startCtx,     \* state of the ctx argument of Start
    startResult,  \* what Start returned
    clock,        \* ticks elapsed since Start created timeoutCtx
    stopCalls,    \* invocations of Client.Stop so far
    crashed,      \* the runtime aborted the process (fatal error: concurrent map access)
    senderCompID, \* Client.senderCompID
    listeners,    \* Client.emitter: topic -> listeners in order of registration
    hpc,          \* delivery goroutine: position inside handleNewsMessage / handleSubscriptions
    hmsg,         \* delivery goroutine: the unsolicited message in hand
    published,    \* history: events published, [topic, no, payload, subs] in order
    spawned,      \* callback goroutines created and not yet running, <<listener, event no>>
    running,      \* callback goroutines inside the listener, <<listener, event no>>
    received,     \* history, by listener: event numbers in the order its callbacks started
    inboundNo,    \* unsolicited inbound messages handled so far
    subscriptions,\* TradeStreamHandler.subscriptions: symbol -> callbacks
    report,       \* the execution report given to DecodeExecutionReport
    decodeResult, \* what DecodeExecutionReport returned, [order, err]
    fireForget,   \* the last fire-and-forget send: [op, args, msg, sent, err]
    sendCalls,    \* fire-and-forget sends so far
    keyConf,      \* the key fields of the Config given to NewClient, and the key file
    keyResult,    \* what the key loading of NewClient came to: [done, key, err]
    logonData     \* the GetLogonRawData invocations so far: [args, out], oldest first

vars == <<isConnected, initiator, mu, pending, request, response, done, wire,
          pc, tid, ctx, result, dpc, dmsg,
          startPc, startCtx, startResult, clock, stopCalls, crashed,
          senderCompID, listeners, hpc, hmsg, published, spawned, running, received,
          inboundNo, subscriptions, report, decodeResult, fireForget, sendCalls,
          keyConf, keyResult, logonData>>

callVars == <<request, response, done>>
threadVars == <<pc, tid, ctx, result>>
deliveryVars == <<dpc, dmsg>>
startVars == <<startPc, startCtx, startResult, clock>>
busVars == <<senderCompID, listeners, hpc, hmsg, published, spawned, running, received,
             inboundNo>>
decodeVars == <<report, decodeResult>>
sendVars == <<fireForget, sendCalls>>
cryptoVars == <<keyConf, keyResult, logonData>>
clientVars == <<isConnected, initiator, mu, pending, callVars, wire, threadVars,
                deliveryVars, startVars, stopCalls, crashed>>

NoResult == [resp |-> NoMsg, err |-> NilErr]
EmptyChan == [buf |-> <<>>, closed |-> FALSE]

\* Variant: the completion channel has no buffer, a send finds no room in it.
DoneUnbuffered(ch) == FALSE

\* client.go:297  make(chan error, 1): call.done has room for a value while it
\* holds none.
DoneHasRoom(ch) == Len(ch.buf) < 1

\* client.go:142,147  the emitter NewClient creates and the sender id it stores
InitBus(sender) ==
    /\ senderCompID = sender
    /\ listeners = [tp \in Topics |-> <<>>]
    /\ hpc = "idle"
    /\ hmsg = NoInbound
    /\ published = <<>>
    /\ spawned = {}
    /\ running = {}
    /\ received = [l \in Listeners |-> <<>>]
    /\ inboundNo = 0

\* part_004:35-39  NewTradeStreamHandler
InitTradeHandler == subscriptions = [sym \in Symbols |-> <<>>]

\* No report decoded, no fire-and-forget send made, no key loaded, nothing signed.
InitNoCalls ==
    /\ report = NoReport /\ decodeResult = NotDecoded
    /\ fireForget = NoSend /\ sendCalls = 0
    /\ keyConf = [hasPEM |-> FALSE, pem |-> EmptyData, path |-> "", file |-> EmptyData]
    /\ keyResult = NotLoaded
    /\ logonData = <<>>

\* The client as NewClient returns it.
Init ==
    /\ isConnected = FALSE
    /\ initiator = "created"
    /\ mu = 0
    /\ pending = [i \in Ids |-> NoCall]
    /\ request = [c \in Calls |-> NoMsg]
    /\ response = [c \in Calls |-> NoMsg]
    /\ done = [c \in Calls |-> EmptyChan]
    /\ wire = {}
    /\ pc = [t \in Calls |-> "idle"]
    /\ tid = [t \in Calls |-> NoId]
    /\ ctx = [t \in Calls |-> "live"]
    /\ result = [t \in Calls |-> NoResult]
    /\ dpc = "idle"
    /\ dmsg = NoMsg
    /\ startPc = "idle"
    /\ startCtx = "live"
    /\ startResult = NilErr
    /\ clock = 0
    /\ stopCalls = 0
    /\ crashed = FALSE
    /\ InitBus(BOETRADE)
    /\ InitTradeHandler
    /\ InitNoCalls

\* ------------------------------------------------------------ Client.send
\* Variant: send without the authorized check.
SendAuthorizedAlways(connected) == TRUE

\* client.go:292  if !c.isConnected.Load() { return waiter{}, ErrClosed }
SendAuthorized(connected) == connected

\* client.go:282-287  addCommonHeaders sets the session header fields of msg
addCommonHeaders(msg) == [msg EXCEPT !.headers = TRUE]

\* Variant: the call is handed to the engine without being registered.
RegisterPendingSkipped(p, id, cc) == p

\* client.go:298  c.pending[id] = cc
RegisterPending(p, id, cc) == [p EXCEPT ![id] = cc]

\* Variant: the failed send leaves its registration in place.
RollbackPendingNone(p, id) == p

\* client.go:302  delete(c.pending, id)
RollbackPending(p, id) == [p EXCEPT ![id] = NoCall]

\* Invocations of Call that have not returned yet.
Active == {t \in Calls : pc[t] \notin {"idle", "returned"}}

\* Ids of the invocations in progress: callers keep the ids of simultaneous
\* calls distinct.
IdsInUse == {tid[u] : u \in Active}

\* Client.Call(ctx, id, msg) is entered and runs send, lines 292-297: the
\* authorized check, the headers, the new call. Invocations are numbered in
\* the order in which they are made.
Call(t, i) ==
    /\ ~crashed
    /\ pc[t] = "idle"
    /\ \A u \in Calls : u < t => pc[u] # "idle"
    /\ i \notin IdsInUse
    /\ tid' = [tid EXCEPT ![t] = i]
    /\ IF SendAuthorized(isConnected)
       THEN /\ request' = [request EXCEPT ![t] =
                              addCommonHeaders([reqId |-> i, headers |-> FALSE])]
            /\ pc' = [pc EXCEPT ![t] = "insert"]
            /\ UNCHANGED result
       ELSE /\ result' = [result EXCEPT ![t] = [resp |-> NoMsg, err |-> ErrClosed]]
            /\ pc' = [pc EXCEPT ![t] = "returned"]
            /\ UNCHANGED request
    /\ UNCHANGED <<isConnected, initiator, mu, pending, response, done, wire, ctx,
                   deliveryVars, startVars, stopCalls, crashed,
                   busVars, subscriptions, decodeVars, sendVars, cryptoVars>>

\* send, line 298: the map write, made without holding c.mu.
SendRegister(t) ==
    /\ ~crashed
    /\ pc[t] = "insert"
    /\ pending' = RegisterPending(pending, tid[t], t)
    /\ pc' = [pc EXCEPT ![t] = "registered"]
    /\ UNCHANGED <<isConnected, initiator, mu, callVars, wire, tid, ctx, result,
                   deliveryVars, startVars, stopCalls, crashed,
                   busVars, subscriptions, decodeVars, sendVars, cryptoVars>>

\* send, lines 300 and 307: quickfix.Send accepts the message, send returns the
\* waiter and Call enters wait with its ctx, live or already done ...
SendTransmitOk(t, c) ==
    /\ ~crashed
    /\ pc[t] = "registered"
    /\ wire' = wire \cup {t}
    /\ ctx' = [ctx EXCEPT ![t] = c]
    /\ pc' = [pc EXCEPT ![t] = "waiting"]
    /\ UNCHANGED <<isConnected, initiator, mu, pending, callVars, tid, result,
                   deliveryVars, startVars, stopCalls, crashed,
                   busVars, subscriptions, decodeVars, sendVars, cryptoVars>>

\* ... or refuses it, and send takes c.mu (line 301) to roll back.
SendTransmitFail(t) ==
    /\ ~crashed
    /\ pc[t] = "registered"
    /\ mu = 0
    /\ mu' = t
    /\ pc' = [pc EXCEPT ![t] = "rollback"]
    /\ UNCHANGED <<isConnected, initiator, pending, callVars, wire, tid, ctx, result,
                   deliveryVars, startVars, stopCalls, crashed,
                   busVars, subscriptions, decodeVars, sendVars, cryptoVars>>

\* send, lines 302-304: delete, unlock, return the error.
RollbackDelete(t) ==
    /\ ~crashed
    /\ pc[t] = "rollback"
    /\ mu = t
    /\ pending' = RollbackPending(pending, tid[t])
    /\ mu' = 0
    /\ result' = [result EXCEPT ![t] = [resp |-> NoMsg, err |-> ErrSend]]
    /\ pc' = [pc EXCEPT ![t] = "returned"]
    /\ UNCHANGED <<isConnected, initiator, callVars, wire, tid, ctx,
                   deliveryVars, startVars, stopCalls, crashed,
                   busVars, subscriptions, decodeVars, sendVars, cryptoVars>>

\* ------------------------------------------------------------ waiter.wait
\* part_001:32  the done case of the select is ready
ChanReady(ch) == Len(ch.buf) > 0 \/ ch.closed

\* part_001:32-39  err, ok := <-done; a closed channel gives ErrClosed
WaitRecvResult(ch, resp) ==
    LET err == IF Len(ch.buf) > 0 THEN Head(ch.buf) ELSE ErrClosed
    IN  IF err # NilErr THEN [resp |-> NoMsg, err |-> err]
                        ELSE [resp |-> resp, err |-> NilErr]

\* Variant: the ctx case returns the response slot and no error.
WaitCtxResultNoErr(c, resp) == [resp |-> resp, err |-> NilErr]

\* part_001:40-41  case <-ctx.Done(): return nil, ctx.Err()
WaitCtxResult(c, resp) == [resp |-> NoMsg, err |-> c]

\* Variant: every waiter receives from one shared completion channel.
WaitChanShared(t) == 1

\* part_001:32  the channel wait receives from: the done of its own call
WaitChan(t) == t

WaitRecv(t) ==
    /\ ~crashed
    /\ pc[t] = "waiting"
    /\ ChanReady(done[WaitChan(t)])
    /\ result' = [result EXCEPT ![t] =
                     WaitRecvResult(done[WaitChan(t)], response[WaitChan(t)])]
    /\ done' = [done EXCEPT ![WaitChan(t)].buf = IF Len(@) > 0 THEN Tail(@) ELSE @]
    /\ pc' = [pc EXCEPT ![t] = "returned"]
    /\ UNCHANGED <<isConnected, initiator, mu, pending, request, response,
                   wire, tid, ctx, deliveryVars, startVars, stopCalls, crashed,
                   busVars, subscriptions, decodeVars, sendVars, cryptoVars>>

WaitCtx(t) ==
    /\ ~crashed
    /\ pc[t] = "waiting"
    /\ ctx[t] # "live"
    /\ result' = [result EXCEPT ![t] = WaitCtxResult(ctx[t], response[t])]
    /\ pc' = [pc EXCEPT ![t] = "returned"]
    /\ UNCHANGED <<isConnected, initiator, mu, pending, callVars,
                   wire, tid, ctx, deliveryVars, startVars, stopCalls, crashed,
                   busVars, subscriptions, decodeVars, sendVars, cryptoVars>>

\* The caller's deadline elapses, or the caller cancels, while wait blocks.
CtxDone(t, e) ==
    /\ ~crashed
    /\ pc[t] = "waiting"
    /\ ctx[t] = "live"
    /\ ctx' = [ctx EXCEPT ![t] = e]
    /\ UNCHANGED <<isConnected, initiator, mu, pending, callVars, wire, pc, tid,
                   result, deliveryVars, startVars, stopCalls, crashed,
                   busVars, subscriptions, decodeVars, sendVars, cryptoVars>>

\* ------------------------------------------- session engine: inbound messages
\* The reply of the peer to request c carries c's request id.
ReplyTo(c) == [reqId |-> request[c].reqId, headers |-> TRUE]

\* FromApp: the engine hands an inbound reply to the client, which takes c.mu.
FromAppLock(c) ==
    /\ ~crashed
    /\ dpc = "idle"
    /\ isConnected
    /\ c \in wire
    /\ mu = 0
    /\ mu' = Delivery
    /\ wire' = wire \ {c}
    /\ dmsg' = ReplyTo(c)
    /\ dpc' = "locked"
    /\ UNCHANGED <<isConnected, initiator, pending, callVars, threadVars,
                   startVars, stopCalls, crashed,
                   busVars, subscriptions, decodeVars, sendVars, cryptoVars>>

\* FromApp: look the call up under the message's id, remove it, release c.mu,
\* store the response and complete the call (done <- nil).
FromAppDeliver ==
    /\ ~crashed
    /\ dpc = "locked"
    /\ mu = Delivery
    /\ LET cc == pending[dmsg.reqId] IN
          IF cc = NoCall
          THEN UNCHANGED <<response, done>>
          ELSE /\ DoneHasRoom(done[cc])
               /\ response' = [response EXCEPT ![cc] = dmsg]
               /\ done' = [done EXCEPT ![cc].buf = Append(@, NilErr)]
    /\ pending' = [pending EXCEPT ![dmsg.reqId] = NoCall]
    /\ mu' = 0
    /\ dpc' = "idle"
    /\ dmsg' = NoMsg
    /\ UNCHANGED <<isConnected, initiator, request, wire, threadVars,
                   startVars, stopCalls, crashed,
                   busVars, subscriptions, decodeVars, sendVars, cryptoVars>>

\* -------------------------------------- session engine: logon and logout
\* OnLogon: the session became authorized.
OnLogon ==
    /\ ~crashed
    /\ initiator = "running"
    /\ ~isConnected
    /\ isConnected' = TRUE
    /\ UNCHANGED <<initiator, mu, pending, callVars, wire, threadVars, deliveryVars,
                   startVars, stopCalls, crashed,
                   busVars, subscriptions, decodeVars, sendVars, cryptoVars>>

\* OnLogout: the session dropped. The pending calls are left as they are.
OnLogout ==
    /\ ~crashed
    /\ isConnected
    /\ isConnected' = FALSE
    /\ UNCHANGED <<initiator, mu, pending, callVars, wire, threadVars, deliveryVars,
                   startVars, stopCalls, crashed,
                   busVars, subscriptions, decodeVars, sendVars, cryptoVars>>

\* ------------------------------------------------------------ Client.Start
\* Variant: the loop selects on the caller's ctx, not on timeoutCtx.
TimeoutCtxDoneParentOnly(clk, parent) == parent # "live"

\* client.go:172,177  timeoutCtx is done at the logon timeout or with the caller's ctx
TimeoutCtxDone(clk, parent) == clk >= LogonTimeoutTicks \/ parent # "live"

\* Variant: the timeout branch stops the engine before it returns.
StartTimeoutStops(ini) == "stopped"

\* client.go:177-178  the timeout branch returns and leaves c.initiator alone
StartTimeoutInitiator(ini) == ini

\* client.go:167-169  c.initiator.Start() fails: Start returns its error.
StartFail ==
    /\ ~crashed
    /\ startPc = "idle"
    /\ initiator = "created"
    /\ startPc' = "returned"
    /\ startResult' = ErrStart
    /\ UNCHANGED <<isConnected, initiator, mu, pending, callVars, wire, threadVars,
                   deliveryVars, startCtx, clock, stopCalls, crashed,
                   busVars, subscriptions, decodeVars, sendVars, cryptoVars>>

\* client.go:167-173  c.initiator.Start() succeeds; timeoutCtx is derived from ctx.
StartBegin(c) ==
    /\ ~crashed
    /\ startPc = "idle"
    /\ initiator = "created"
    /\ initiator' = "running"
    /\ startCtx' = c
    /\ clock' = 0
    /\ startPc' = "polling"
    /\ UNCHANGED <<isConnected, mu, pending, callVars, wire, threadVars, deliveryVars,
                   startResult, stopCalls, crashed,
                   busVars, subscriptions, decodeVars, sendVars, cryptoVars>>

\* client.go:176-184  one iteration of the polling loop, up to time.Sleep.
StartSelect ==
    /\ ~crashed
    /\ startPc = "polling"
    /\ IF TimeoutCtxDone(clock, startCtx)
       THEN /\ startResult' = ErrLogonTimeout
            /\ initiator' = StartTimeoutInitiator(initiator)
            /\ startPc' = "returned"
       ELSE IF isConnected
       THEN /\ startResult' = NilErr
            /\ startPc' = "returned"
            /\ UNCHANGED initiator
       ELSE /\ startPc' = "sleeping"
            /\ UNCHANGED <<startResult, initiator>>
    /\ UNCHANGED <<isConnected, mu, pending, callVars, wire, threadVars, deliveryVars,
                   startCtx, clock, stopCalls, crashed,
                   busVars, subscriptions, decodeVars, sendVars, cryptoVars>>

\* client.go:183  time.Sleep(10 * time.Millisecond) ends.
StartWake ==
    /\ ~crashed
    /\ startPc = "sleeping"
    /\ startPc' = "polling"
    /\ UNCHANGED <<isConnected, initiator, mu, pending, callVars, wire, threadVars,
                   deliveryVars, startCtx, startResult, clock, stopCalls, crashed,
                   busVars, subscriptions, decodeVars, sendVars, cryptoVars>>

\* The caller's ctx is cancelled or reaches its own deadline while Start polls.
StartCtxDone(e) ==
    /\ ~crashed
    /\ startPc \in {"polling", "sleeping"}
    /\ startCtx = "live"
    /\ startCtx' = e
    /\ UNCHANGED <<isConnected, initiator, mu, pending, callVars, wire, threadVars,
                   deliveryVars, startPc, startResult, clock, stopCalls, crashed,
                   busVars, subscriptions, decodeVars, sendVars, cryptoVars>>

\* Time passes towards the logon timeout.
Tick ==
    /\ ~crashed
    /\ startPc \in {"polling", "sleeping"}
    /\ clock < LogonTimeoutTicks
    /\ clock' = clock + 1
    /\ UNCHANGED <<isConnected, initiator, mu, pending, callVars, wire, threadVars,
                   deliveryVars, startPc, startCtx, startResult, stopCalls, crashed,
                   busVars, subscriptions, decodeVars, sendVars, cryptoVars>>

\* ------------------------------------------------------------- Client.Stop
\* Variant: Stop acts only on a connected client.
StopInitiatorIfConnected(ini, connected) == IF connected THEN "stopped" ELSE ini

\* client.go:256  c.initiator.Stop(), whatever the connection state
StopInitiator(ini, connected) == "stopped"

\* Stop: the engine is told to stop; a logged-on session is logged out on the way.
Stop ==
    /\ ~crashed
    /\ initiator # "created"
    /\ stopCalls < MaxStops
    /\ initiator' = StopInitiator(initiator, isConnected)
    /\ isConnected' = IF initiator' = "stopped" THEN FALSE ELSE isConnected
    /\ stopCalls' = stopCalls + 1
    /\ UNCHANGED <<mu, pending, callVars, wire, threadVars, deliveryVars, startVars,
                   crashed,
                   busVars, subscriptions, decodeVars, sendVars, cryptoVars>>

\* ------------------------------------------------- unsynchronised map access
\* The write of send (line 298) is in flight while another goroutine writes the
\* map too or works on it under c.mu.
ConcurrentMapAccess ==
    \E t \in Calls :
        /\ pc[t] = "insert"
        /\ \/ \E u \in Calls \ {t} : pc[u] = "insert"
           \/ mu # 0

\* The Go runtime detects the concurrent map access and aborts the process;
\* when it does not, the accesses take effect one after the other.
MapFault ==
    /\ ~crashed
    /\ ConcurrentMapAccess
    /\ crashed' = TRUE
    /\ UNCHANGED <<isConnected, initiator, mu, pending, callVars, wire, threadVars,
                   deliveryVars, startVars, stopCalls,
                   busVars, subscriptions, decodeVars, sendVars, cryptoVars>>

\* -------------------------------------------------------- specifications
\* The connection lifecycle: Start, Stop and the engine's logon and logout.
NextLifecycle ==
    \/ OnLogon
    \/ OnLogout
    \/ StartFail
    \/ \E c \in CtxStates : StartBegin(c)
    \/ StartSelect
    \/ StartWake
    \/ \E e \in CtxErrors : StartCtxDone(e)
    \/ Tick
    \/ Stop

\* Request/response correlation on a started client, with the session
\* dropping and coming back.
NextCall ==
    \/ \E t \in Calls, i \in Ids : Call(t, i)
    \/ \E t \in Calls : SendRegister(t)
    \/ \E t \in Calls, c \in CtxStates : SendTransmitOk(t, c)
    \/ \E t \in Calls : SendTransmitFail(t)
    \/ \E t \in Calls : RollbackDelete(t)
    \/ \E t \in Calls : WaitRecv(t)
    \/ \E t \in Calls : WaitCtx(t)
    \/ \E t \in Calls, e \in CtxErrors : CtxDone(t, e)
    \/ \E c \in Calls : FromAppLock(c)
    \/ FromAppDeliver
    \/ OnLogon
    \/ OnLogout
    \/ MapFault

\* The client after Start has returned nil: the engine runs, the session is
\* authorized.
StartedClient ==
    /\ isConnected = TRUE
    /\ initiator = "running"
    /\ mu = 0
    /\ pending = [i \in Ids |-> NoCall]
    /\ request = [c \in Calls |-> NoMsg]
    /\ response = [c \in Calls |-> NoMsg]
    /\ done = [c \in Calls |-> EmptyChan]
    /\ wire = {}
    /\ pc = [t \in Calls |-> "idle"]
    /\ tid = [t \in Calls |-> NoId]
    /\ ctx = [t \in Calls |-> "live"]
    /\ result = [t \in Calls |-> NoResult]
    /\ dpc = "idle"
    /\ dmsg = NoMsg
    /\ startPc = "returned"
    /\ startCtx = "live"
    /\ startResult = NilErr
    /\ clock = 0
    /\ stopCalls = 0
    /\ crashed = FALSE

InitCall ==
    /\ StartedClient
    /\ InitBus(BOETRADE)
    /\ InitTradeHandler
    /\ InitNoCalls

Spec == Init /\ [][NextLifecycle]_vars

SpecCall == InitCall /\ [][NextCall]_vars

\* Time passes and the goroutine of Start is scheduled.
FairSpec ==
    /\ Spec
    /\ WF_vars(Tick)
    /\ WF_vars(StartSelect)
    /\ WF_vars(StartWake)

\* ================================================================ decoders
\* strconv.ParseInt(str, 10, 64) on an unsigned decimal: [ok, val]
RECURSIVE ParseDigits(_)
ParseDigits(str) ==
    IF str = EmptyString THEN 0
    ELSE ParseDigits(SubSeq(str, 1, Len(str) - 1)) * 10
             + (CHOOSE d \in DOMAIN Digits : Digits[d] = str[Len(str)]) - 1
ParseInt(str) ==
    IF Len(str) > 0 /\ \A i \in DOMAIN str : \E d \in DOMAIN Digits : Digits[d] = str[i]
    THEN [ok |-> TRUE, val |-> ParseDigits(str)]
    ELSE [ok |-> FALSE, val |-> 0]

\* part_002:19-28  mappedOrderStatus[f.Value()], "" for a value outside the map
mappedOrderStatus(v) ==
    CASE v = "0" -> "NEW"
      [] v = "1" -> "PARTIALLY_FILLED"
      [] v = "2" -> OrderStatusFilled
      [] v = "4" -> "CANCELED"
      [] v = "6" -> "PENDING_CANCEL"
      [] v = "8" -> OrderStatusRejected
      [] v = "A" -> "PENDING_NEW"
      [] v = "C" -> "EXPIRED"
      [] OTHER -> ""

\* part_002:39-43
mappedTimeInForce(v) ==
    CASE v = "1" -> "GOOD_TILL_CANCEL"
      [] v = "3" -> "IMMEDIATE_OR_CANCEL"
      [] v = "4" -> "FILL_OR_KILL"
      [] OTHER -> ""

\* part_002:55-60
mappedOrderType(v) ==
    CASE v = "1" -> "MARKET"
      [] v = "2" -> "LIMIT"
      [] v = "3" -> "STOP"
      [] v = "4" -> "STOP_LIMIT"
      [] OTHER -> ""

\* Variant: a side outside the map is passed on as it came.
mappedSideTypeRaw(v) == v

\* part_002:70-73
mappedSideType(v) ==
    CASE v = "1" -> "BUY"
      [] v = "2" -> "SELL"
      [] OTHER -> ""

\* Variant: the reason text is never read.
getTextNone(msg) == ""

\* execution_report.go:146-154  the Text (58) tag, "" when it is absent
getText(msg) == IF msg.text.has THEN msg.text.val ELSE ""

\* execution_report.go:39-142, on reports that carry no ClOrdID, CumQuoteQty,
\* MaxFloor, TransactTime, OrderCreationTime or WorkingTime tag.
DecodeExecutionReport(msg) ==
    LET Fail(e) == [order |-> EmptyOrder, err |-> e]
        status == mappedOrderStatus(msg.status.val)
        orderID == ParseInt(msg.orderID.val)
    IN  IF ~msg.status.has THEN Fail(ErrFieldMissing)
        ELSE IF status = OrderStatusRejected /\ getText(msg) # "" THEN Fail(getText(msg))
        ELSE IF ~msg.symbol.has THEN Fail(ErrFieldMissing)
        ELSE IF ~orderID.ok THEN Fail(ErrParseInt)
        ELSE IF ~msg.price.ok \/ ~msg.orderQty.ok \/ ~msg.cumQty.ok THEN Fail(ErrMalformed)
        ELSE IF ~msg.ordType.has \/ ~msg.side.has THEN Fail(ErrFieldMissing)
        ELSE [order |-> [Symbol |-> msg.symbol.val,
                         OrderID |-> orderID.val,
                         Price |-> msg.price.val,
                         OrderQty |-> msg.orderQty.val,
                         CumQty |-> msg.cumQty.val,
                         Status |-> status,
                         TimeInForce |-> IF msg.timeInForce.has
                                         THEN mappedTimeInForce(msg.timeInForce.val) ELSE "",
                         Type |-> mappedOrderType(msg.ordType.val),
                         Side |-> mappedSideType(msg.side.val)],
              err |-> NilErr]

\* A trade message carries tradeID (tag 1003), reportID (tag 571), px (tag
\* 270), lastPx (tag 31), size (tag 271), lastQty (tag 32) and time (tag 60).

\* Variant: only the primary identifier tag is read.
getTradeIDPrimaryOnly(msg) ==
    LET p == ParseInt(msg.tradeID.val)
    IN  [has |-> msg.tradeID.has, ok |-> p.ok, val |-> p.val]

\* part_004:133-151  getTradeID: tag 1003 when the body has it, else tag 571,
\* else "trade ID not found"; the text of the chosen tag goes to ParseInt.
getTradeID(msg) ==
    LET p == ParseInt(IF msg.tradeID.has THEN msg.tradeID.val ELSE msg.reportID.val)
    IN  [has |-> msg.tradeID.has \/ msg.reportID.has, ok |-> p.ok, val |-> p.val]

\* Variant: only the primary price tag is read.
getTradePricePrimaryOnly(msg) == msg.px

\* part_004:153-171  getTradePrice: tag 270 when the body has it, else tag 31,
\* else "trade price not found".
getTradePrice(msg) == IF msg.px.has THEN msg.px ELSE msg.lastPx

\* part_004:81-121, 125-131, 173-204
DecodeTradeMessage(msg) ==
    LET Fail(e) == [trade |-> EmptyTrade, err |-> e]
        id == getTradeID(msg)
        price == getTradePrice(msg)
        quantity == IF msg.size.has THEN msg.size ELSE msg.lastQty
    IN  IF ~msg.symbol.has THEN Fail(ErrFieldMissing)
        ELSE IF ~id.has THEN Fail("trade ID not found")
        ELSE IF ~id.ok THEN Fail(ErrParseInt)
        ELSE IF ~price.has THEN Fail("trade price not found")
        ELSE IF ~price.ok THEN Fail(ErrMalformed)
        ELSE IF ~quantity.has THEN Fail("trade quantity not found")
        ELSE IF ~quantity.ok THEN Fail(ErrMalformed)
        ELSE IF ~msg.time.has THEN Fail("trade time not found")
        ELSE [trade |-> [Symbol |-> msg.symbol.val, TradeID |-> id.val,
                         Price |-> price.val, Quantity |-> quantity.val],
              err |-> NilErr]

\* ================================================== event distribution
Range(seq) == {seq[i] : i \in DOMAIN seq}

\* ------------------------------------------------- emitter: On and Emit
\* Listeners that have been registered on some topic.
Registered == UNION {Range(listeners[tp]) : tp \in Topics}

\* subsciptions.go:8,14; client.go:194,217,228  c.emitter.On(topic, listener)
\* appends the listener to the list of its topic.
On(tp, l) ==
    /\ l \notin Registered
    /\ \A k \in Listeners : k < l => k \in Registered
    /\ listeners' = [listeners EXCEPT ![tp] = Append(@, l)]
    /\ UNCHANGED <<clientVars, senderCompID, hpc, hmsg, published, spawned, running,
                   received, inboundNo, subscriptions, decodeVars, sendVars, cryptoVars>>

\* Variant: Emit calls the listeners of every topic.
EmitListenersAllTopics(ls, tp) == UNION {Range(ls[t2]) : t2 \in Topics}

\* client.go:316,323,348,355  Emit(topic, ...) calls the listeners registered
\* on the topic at the time of the call
EmitListeners(ls, tp) == Range(ls[tp])

\* Emit, first half, while inbound message m is handled: the listeners are
\* read, the event is out, and one goroutine per listener is created.
Emit(tp, payload, m) ==
    LET no == Len(published) + 1 IN
    /\ published' = Append(published,
                           [topic |-> tp, no |-> no, msg |-> m, payload |-> payload,
                            subs |-> Range(listeners[tp])])
    /\ spawned' = spawned \cup {<<l, no>> : l \in EmitListeners(listeners, tp)}

\* Emit, second half: it returns when each goroutine it created has returned.
EmitReturned == \A g \in spawned \cup running : g[2] # Len(published)

\* A callback goroutine is scheduled and enters the listener.
ListenerStart(l, no) ==
    /\ <<l, no>> \in spawned
    /\ spawned' = spawned \ {<<l, no>>}
    /\ running' = running \cup {<<l, no>>}
    /\ received' = [received EXCEPT ![l] = Append(@, no)]
    /\ UNCHANGED <<clientVars, senderCompID, listeners, hpc, hmsg, published, inboundNo,
                   subscriptions, decodeVars, sendVars, cryptoVars>>

\* The listener returns.
ListenerReturn(l, no) ==
    /\ <<l, no>> \in running
    /\ running' = running \ {<<l, no>>}
    /\ UNCHANGED <<clientVars, senderCompID, listeners, hpc, hmsg, published, spawned,
                   received, inboundNo, subscriptions, decodeVars, sendVars, cryptoVars>>

\* ---------------------------------------------------- handleNewsMessage
\* client.go:330-339  the value of a tag, "" when the tag is absent
GetStringOrEmpty(f) == IF f.has THEN f.val ELSE EmptyString

\* client.go:342-344
isMaintenanceNews(headline, newsText) ==
    \/ Contains(ToLower(headline), KwMaintenance)
    \/ Contains(ToLower(newsText), KwMaintenance)
    \/ Contains(ToLower(newsText), KwReconnect)

\* Variant: every session is told to reconnect.
NeedsReconnectAlways(sender) == TRUE

\* client.go:354  strings.Contains(c.senderCompID, "BMD")
NeedsReconnect(sender) == Contains(sender, KwBMD)

\* A News message with its Headline (148) and Text (58) tags.
News(h, t) == [msgType |-> "B", body |-> [headline |-> h, text |-> t]]

\* client.go:328-351  handleNewsMessage up to the Emit of the maintenance event.
handleNewsMessage(m) ==
    /\ hpc = "idle"
    /\ inboundNo < MaxNotices
    /\ inboundNo' = inboundNo + 1
    /\ hmsg' = m
    /\ LET headline == GetStringOrEmpty(m.body.headline)
           newsText == GetStringOrEmpty(m.body.text)
       IN  IF isMaintenanceNews(headline, newsText)
           THEN /\ Emit(MaintenanceTopic, [headline |-> headline, text |-> newsText],
                        inboundNo + 1)
                /\ hpc' = "maintenance"
           ELSE /\ hpc' = "idle"
                /\ UNCHANGED <<published, spawned>>
    /\ UNCHANGED <<clientVars, senderCompID, listeners, running, received,
                   subscriptions, decodeVars, sendVars, cryptoVars>>

\* client.go:351-356  the Emit of the maintenance event returns; on a
\* market-data session the reconnect-needed event follows.
NewsMaintenanceEmitted ==
    /\ hpc = "maintenance"
    /\ EmitReturned
    /\ IF NeedsReconnect(senderCompID)
       THEN /\ Emit(ReconnectNeededTopic, [flag |-> TRUE], inboundNo)
            /\ hpc' = "reconnect"
       ELSE /\ hpc' = "idle"
            /\ UNCHANGED <<published, spawned>>
    /\ UNCHANGED <<clientVars, senderCompID, listeners, hmsg, running, received,
                   inboundNo, subscriptions, decodeVars, sendVars, cryptoVars>>

\* The last Emit of the handler returns, and the handler with it.
HandlerReturn ==
    /\ hpc \in {"reconnect", "publish"}
    /\ EmitReturned
    /\ hpc' = "idle"
    /\ UNCHANGED <<clientVars, senderCompID, listeners, hmsg, published, spawned,
                   running, received, inboundNo, subscriptions, decodeVars, sendVars, cryptoVars>>

\* Headline and Text values of the notices the peer sends; TxSpec is
\* "Scheduled maintenance, please reconnect".
TxSpec == <<"S", "c", "h", "e", "d", "u", "l", "e", "d", " ", "m", "a", "i", "n", "t", "e", "n", "a", "n", "c", "e", ",", " ", "p", "l", "e", "a", "s", "e", " ", "r", "e", "c", "o", "n", "n", "e", "c", "t">>
Headlines ==
    {AbsentField, Field(EmptyString),
     Field(<<"S", "y", "s", "t", "e", "m", " ", "M", "A", "I", "N", "T", "E", "N", "A", "N", "C", "E">>),
     Field(<<"P", "l", "e", "a", "s", "e", " ", "R", "e", "c", "o", "n", "n", "e", "c", "t">>),
     Field(<<"N", "e", "w", " ", "l", "i", "s", "t", "i", "n", "g">>)}
Texts ==
    {AbsentField, Field(TxSpec),
     Field(<<"R", "E", "C", "O", "N", "N", "E", "C", "T", " ", "n", "o", "w">>),
     Field(<<"m", "a", "i", "n", "t", "e", "n", "a", "n", "c">>),
     Field(<<"F", "e", "e", " ", "u", "p", "d", "a", "t", "e">>)}

\* A started client of either endpoint with a maintenance listener and a
\* reconnect-needed listener registered.
InitNews ==
    /\ StartedClient
    /\ senderCompID \in SenderIds
    /\ listeners = [tp \in Topics |->
                       IF tp = MaintenanceTopic THEN <<1>>
                       ELSE IF tp = ReconnectNeededTopic THEN <<2>> ELSE <<>>]
    /\ hpc = "idle"
    /\ hmsg = NoInbound
    /\ published = <<>>
    /\ spawned = {}
    /\ running = {}
    /\ received = [l \in Listeners |-> <<>>]
    /\ inboundNo = 0
    /\ InitTradeHandler
    /\ InitNoCalls

NextNews ==
    \/ \E h \in Headlines, t \in Texts : handleNewsMessage(News(h, t))
    \/ NewsMaintenanceEmitted
    \/ HandlerReturn
    \/ \E l \in Listeners, no \in 1..(2 * MaxNotices) : ListenerStart(l, no)
    \/ \E l \in Listeners, no \in 1..(2 * MaxNotices) : ListenerReturn(l, no)

SpecNews == InitNews /\ [][NextNews]_vars

\* --------------------------------------------------- handleSubscriptions
\* Unsolicited messages: a fill, a rejection with its reason, a report without
\* Symbol, a trade, a trade without identifier.
BusFill ==
    [NoReport EXCEPT !.status = Tag("2"), !.symbol = Tag("BTCUSDT"),
                     !.orderID = Field(<<"1", "2">>), !.orderQty = Num(1),
                     !.cumQty = Num(1), !.ordType = Tag("2"), !.side = Tag("1")]
BusTrade ==
    [symbol |-> Tag("BTCUSDT"), tradeID |-> Field(<<"7">>), reportID |-> AbsentField,
     px |-> Num(1), lastPx |-> NoNum, size |-> Num(1), lastQty |-> NoNum,
     time |-> Tag("20240924-21:07:35")]
BusMessages ==
    {[msgType |-> "8", body |-> BusFill],
     [msgType |-> "8", body |-> [BusFill EXCEPT !.status = Tag("8"),
                                                !.text = Tag("Insufficient balance")]],
     [msgType |-> "8", body |-> [BusFill EXCEPT !.symbol = NoTag]],
     [msgType |-> "X", body |-> BusTrade],
     [msgType |-> "X", body |-> [BusTrade EXCEPT !.tradeID = AbsentField]]}

\* client.go:310-325  an execution report or a trade is decoded; a decoded one
\* is emitted on its topic, a failed decode returns.
handleSubscriptions(m) ==
    /\ hpc = "idle"
    /\ inboundNo < MaxInbound
    /\ inboundNo' = inboundNo + 1
    /\ hmsg' = m
    /\ LET report8 == m.msgType = "8"
           err == IF report8 THEN DecodeExecutionReport(m.body).err
                             ELSE DecodeTradeMessage(m.body).err
       IN  IF err # NilErr
           THEN /\ hpc' = "idle"
                /\ UNCHANGED <<published, spawned>>
           ELSE /\ IF report8
                   THEN Emit(ExecutionReportTopic, DecodeExecutionReport(m.body).order,
                             inboundNo + 1)
                   ELSE Emit(TradeStreamTopic, DecodeTradeMessage(m.body).trade,
                             inboundNo + 1)
                /\ hpc' = "publish"
    /\ UNCHANGED <<clientVars, senderCompID, listeners, running, received,
                   subscriptions, decodeVars, sendVars, cryptoVars>>

\* Execution reports and trades arrive at a started client while listeners
\* are registered and run.
NextBus ==
    \/ \E l \in Listeners, tp \in {ExecutionReportTopic, TradeStreamTopic} : On(tp, l)
    \/ \E m \in BusMessages : handleSubscriptions(m)
    \/ HandlerReturn
    \/ \E l \in Listeners, no \in 1..MaxInbound : ListenerStart(l, no)
    \/ \E l \in Listeners, no \in 1..MaxInbound : ListenerReturn(l, no)

SpecBus == InitCall /\ [][NextBus]_vars

\* ------------------------------------------------------ TradeStreamHandler
\* part_004:42-47  Subscribe(symbol, callback): append under h.mu
Subscribe(sym, l) ==
    /\ \A s2 \in Symbols : l \notin Range(subscriptions[s2])
    /\ subscriptions' = [subscriptions EXCEPT ![sym] = Append(@, l)]
    /\ UNCHANGED <<clientVars, busVars, decodeVars, sendVars, cryptoVars>>

\* part_004:50-55  Unsubscribe(symbol): delete under h.mu
Unsubscribe(sym) ==
    /\ subscriptions[sym] # <<>>
    /\ subscriptions' = [subscriptions EXCEPT ![sym] = <<>>]
    /\ UNCHANGED <<clientVars, busVars, decodeVars, sendVars, cryptoVars>>

\* Variant: the callbacks of every symbol are read.
TradeCallbacksAllSymbols(subs, sym) == UNION {Range(subs[s2]) : s2 \in Symbols}

\* part_004:65-70  callbacks, exists := h.subscriptions[trade.Symbol]; nothing
\* is called when the symbol has no entry.
TradeCallbacks(subs, sym) == Range(subs[sym])

\* part_004:58-70  HandleTradeMessage decodes the message and reads the
\* callbacks of the trade's symbol under the read lock; a failed decode
\* returns its error.
HandleTradeMessage(m) ==
    /\ hpc = "idle"
    /\ inboundNo < MaxInbound
    /\ inboundNo' = inboundNo + 1
    /\ hmsg' = m
    /\ LET d == DecodeTradeMessage(m.body) IN
          IF d.err # NilErr
          THEN /\ hpc' = "idle"
               /\ UNCHANGED published
          ELSE /\ published' = Append(published,
                                      [topic |-> d.trade.Symbol, no |-> Len(published) + 1,
                                       msg |-> inboundNo + 1, payload |-> d.trade,
                                       subs |-> TradeCallbacks(subscriptions, d.trade.Symbol)])
               /\ hpc' = "notify"
    /\ UNCHANGED <<clientVars, senderCompID, listeners, spawned, running, received,
                   subscriptions, decodeVars, sendVars, cryptoVars>>

\* part_004:72-77  go callback(trade) for each callback read, then return nil:
\* nothing waits for the goroutines.
TradeNotify ==
    /\ hpc = "notify"
    /\ spawned' = spawned \cup {<<l, Len(published)>> : l \in published[Len(published)].subs}
    /\ hpc' = "idle"
    /\ UNCHANGED <<clientVars, senderCompID, listeners, hmsg, published, running, received,
                   inboundNo, subscriptions, decodeVars, sendVars, cryptoVars>>

\* Trade messages are handed to a TradeStreamHandler while callbacks are
\* subscribed, unsubscribed and run.
NextTradeHandler ==
    \/ \E sym \in Symbols, l \in Listeners : Subscribe(sym, l)
    \/ \E sym \in Symbols : Unsubscribe(sym)
    \/ \E sym \in Symbols :
           HandleTradeMessage([msgType |-> "X", body |-> [BusTrade EXCEPT !.symbol = Tag(sym)]])
    \/ HandleTradeMessage([msgType |-> "X", body |-> [BusTrade EXCEPT !.tradeID = AbsentField]])
    \/ TradeNotify
    \/ \E l \in Listeners, no \in 1..MaxInbound : ListenerStart(l, no)
    \/ \E l \in Listeners, no \in 1..MaxInbound : ListenerReturn(l, no)

SpecTradeHandler == InitCall /\ [][NextTradeHandler]_vars

\* Callbacks are subscribed and unsubscribed around the handling of a trade
\* message, and the callbacks it started begin to run.
NextTradeCallbacks ==
    \/ \E sym \in Symbols, l \in Listeners : Subscribe(sym, l)
    \/ \E sym \in Symbols : Unsubscribe(sym)
    \/ \E sym \in Symbols :
           /\ inboundNo < MaxTrades
           /\ HandleTradeMessage([msgType |-> "X",
                                  body |-> [BusTrade EXCEPT !.symbol = Tag(sym)]])
    \/ /\ inboundNo < MaxTrades
       /\ HandleTradeMessage([msgType |-> "X",
                              body |-> [BusTrade EXCEPT !.tradeID = AbsentField]])
    \/ TradeNotify
    \/ \E l \in Listeners, no \in 1..MaxTrades : ListenerStart(l, no)

SpecTradeCallbacks == InitCall /\ [][NextTradeCallbacks]_vars

\* ================================================= fire-and-forget sends
\* Variant: the message is registered in c.pending like a request of send.
SendWithoutResponseRegisters(p) == RegisterPending(p, 1, 1)

\* client.go:273-280  SendWithoutResponse reads and writes no entry of c.pending
SendWithoutResponsePending(p) == p

\* client.go:273-280  SendWithoutResponse(msg): ErrClosed when the session is
\* not authorized, else the headers are set and the result of quickfix.Send,
\* which accepts the message or not, is returned. op and args are the exported
\* method that was called and the symbols it was given.
SendWithoutResponse(op, args, msg, accepted) ==
    /\ ~crashed
    /\ sendCalls < MaxSends
    /\ sendCalls' = sendCalls + 1
    /\ fireForget' =
           IF ~SendAuthorized(isConnected)
           THEN [op |-> op, args |-> args, msg |-> msg, sent |-> FALSE, err |-> ErrClosed]
           ELSE [op |-> op, args |-> args, msg |-> addCommonHeaders(msg), sent |-> accepted,
                 err |-> IF accepted THEN NilErr ELSE ErrSend]
    /\ pending' = SendWithoutResponsePending(pending)
    /\ UNCHANGED <<isConnected, initiator, mu, callVars, wire, threadVars, deliveryVars,
                   startVars, stopCalls, crashed, busVars, subscriptions, decodeVars,
                   cryptoVars>>

\* Variant: one group entry is added and set again for every symbol.
SymbolGroupOneEntry(symbols) ==
    [count |-> IF symbols = <<>> THEN 0 ELSE 1,
     entries |-> IF symbols = <<>> THEN <<>> ELSE <<[tag55 |-> symbols[Len(symbols)]]>>]

\* part_003:26-35, 59-68  the NoRelatedSym (146) group: for each symbol, in the
\* order of the slice, Add appends an entry and Set writes the symbol to its
\* tag 55; SetGroup writes the number of entries and the entries to the body.
SymbolGroup(symbols) ==
    [count |-> Len(symbols),
     entries |-> [i \in 1..Len(symbols) |-> [tag55 |-> symbols[i]]]]

\* part_003:17-43, 52-68  the MarketDataRequest: request id, subscription
\* request type, market depth (subscribe only), one group entry per symbol
\* and, to subscribe, the entry type TRADE.
MarketDataRequest(subType, symbols) ==
    [msgType |-> "V", mdReqID |-> sendCalls + 1, subscriptionRequestType |-> subType,
     symbols |-> SymbolGroup(symbols), entryTypes |-> IF subType = "1" THEN <<"2">> ELSE <<>>,
     headers |-> FALSE]

\* part_003:15-47
SubscribeToTrades(symbols, accepted) ==
    SendWithoutResponse("SubscribeToTrades", symbols, MarketDataRequest("1", symbols),
                        accepted)

\* part_003:50-72
UnsubscribeFromTrades(symbols, accepted) ==
    SendWithoutResponse("UnsubscribeFromTrades", symbols, MarketDataRequest("2", symbols),
                        accepted)

SymbolLists == {<<>>, <<"BTCUSDT">>, <<"BTCUSDT", "ETHUSDT">>, <<"ETHUSDT", "ETHUSDT">>}

\* Calls are made and answered on a started client while fire-and-forget
\* messages are sent and the session drops and comes back.
NextSend ==
    \/ \E t \in Calls, i \in Ids : Call(t, i)
    \/ \E t \in Calls : SendRegister(t)
    \/ \E t \in Calls : SendTransmitOk(t, "live")
    \/ \E c \in Calls : FromAppLock(c)
    \/ FromAppDeliver
    \/ OnLogon
    \/ OnLogout
    \/ \E a \in BOOLEAN :
           SendWithoutResponse("SendWithoutResponse", <<>>,
                               [msgType |-> "D", headers |-> FALSE], a)
    \/ \E syms \in SymbolLists, a \in BOOLEAN : SubscribeToTrades(syms, a)
    \/ \E syms \in SymbolLists, a \in BOOLEAN : UnsubscribeFromTrades(syms, a)

SpecSend == InitCall /\ [][NextSend]_vars

\* ============================================== decoding execution reports
\* Execution reports as the peer can send them: each tag absent or present,
\* enum tags with values inside and outside the known sets.
Reports ==
    [status : {NoTag, Tag("0"), Tag("2"), Tag("8"), Tag("3")},
     text : {NoTag, Tag(""), Tag("Insufficient balance")},
     symbol : {NoTag, Tag("BTCUSDT")},
     orderID : {AbsentField, Field(<<"1", "2">>), Field(<<"1", "x">>)},
     price : {NoNum},
     orderQty : {NoNum, BadNum} \cup {Num(q) : q \in 1..MaxQty},
     cumQty : {NoNum} \cup {Num(q) : q \in 0..MaxQty},
     timeInForce : {NoTag, Tag("1"), Tag("9")},
     ordType : {NoTag, Tag("2"), Tag("P")},
     side : {NoTag, Tag("1"), Tag("9")}]

InitDecode ==
    /\ StartedClient
    /\ InitBus(BOETRADE)
    /\ InitTradeHandler
    /\ report \in Reports
    /\ decodeResult = NotDecoded
    /\ fireForget = NoSend
    /\ sendCalls = 0
    /\ keyConf = [hasPEM |-> FALSE, pem |-> EmptyData, path |-> "", file |-> EmptyData]
    /\ keyResult = NotLoaded
    /\ logonData = <<>>

\* execution_report.go:39  DecodeExecutionReport(report) is called and returns.
Decode ==
    /\ ~decodeResult.done
    /\ LET d == DecodeExecutionReport(report) IN
          decodeResult' = [done |-> TRUE, order |-> d.order, err |-> d.err]
    /\ UNCHANGED <<clientVars, busVars, subscriptions, report, sendVars, cryptoVars>>

SpecDecode == InitDecode /\ [][Decode]_vars

\* ------------------------------------------------- decoding trade messages
\* Trade messages as the peer can send them: each tag absent, well-formed or
\* malformed; the primary and the fallback tags carry different values.
TradeMessages ==
    [symbol : {NoTag, Tag("BTCUSDT")},
     tradeID : {AbsentField, Field(<<"7">>), Field(<<"7", "x">>)},
     reportID : {AbsentField, Field(<<"1", "2">>), Field(<<"x">>)},
     px : {NoNum, BadNum, Num(1)},
     lastPx : {NoNum, BadNum, Num(2)},
     size : {NoNum, Num(1)},
     lastQty : {NoNum, Num(2)},
     time : {NoTag, Tag("20240101-00:00:00")}]

InitTradeDecode ==
    /\ StartedClient
    /\ InitBus(BOETRADE)
    /\ InitTradeHandler
    /\ report \in TradeMessages
    /\ decodeResult = [done |-> FALSE, trade |-> EmptyTrade, err |-> NilErr]
    /\ fireForget = NoSend
    /\ sendCalls = 0
    /\ keyConf = [hasPEM |-> FALSE, pem |-> EmptyData, path |-> "", file |-> EmptyData]
    /\ keyResult = NotLoaded
    /\ logonData = <<>>

\* part_004:81  DecodeTradeMessage(msg) is called and returns.
DecodeTrade ==
    /\ ~decodeResult.done
    /\ LET d == DecodeTradeMessage(report) IN
          decodeResult' = [done |-> TRUE, trade |-> d.trade, err |-> d.err]
    /\ UNCHANGED <<clientVars, busVars, subscriptions, report, sendVars, cryptoVars>>

SpecTradeDecode == InitTradeDecode /\ [][DecodeTrade]_vars

\* ================================================= key loading and logon
\* Key bytes: the type of the first PEM block ("" when the bytes hold no PEM
\* block) and what the bytes under the armour are: a PKCS#8 Ed25519 key, a
\* PKCS#8 RSA key, or bytes that are no PKCS#8 structure.
KeyData ==
    {EmptyData} \cup [block : {"", "PRIVATE KEY", "RSA PRIVATE KEY"},
                      der : {"malformed", "rsa", "ed25519"}]

\* client.go:119-132  Config.PrivateKeyPEM (nil or bytes), Config.PrivateKeyFilePath
\* ("" or a path), and the bytes of the file key.pem; absent.pem does not exist.
KeyConfigs ==
    [hasPEM : BOOLEAN, pem : KeyData, path : {"", "absent.pem", "key.pem"},
     file : KeyData]

\* crypto.go:28-45
ParseEd25519PrivateKey(data) ==
    IF data.block # "PRIVATE KEY"
    THEN [key |-> "", err |-> ErrNilPrivateKeyValue]
    ELSE IF data.der = "malformed"
    THEN [key |-> "", err |-> "x509: failed to parse private key"]
    ELSE IF data.der # "ed25519"
    THEN [key |-> "", err |-> ErrInvalidEd25519Key]
    ELSE [key |-> "ed25519 key", err |-> NilErr]

\* crypto.go:48-61
GetEd25519PrivateKeyFromFile(conf) ==
    IF conf.path # "key.pem"
    THEN [key |-> "", err |-> "open: no such file or directory"]
    ELSE ParseEd25519PrivateKey(conf.file)

InitKey ==
    /\ StartedClient
    /\ InitBus(BOETRADE)
    /\ InitTradeHandler
    /\ report = NoReport /\ decodeResult = NotDecoded
    /\ fireForget = NoSend /\ sendCalls = 0
    /\ keyConf \in KeyConfigs
    /\ keyResult = NotLoaded
    /\ logonData = <<>>

\* client.go:119-132  NewClient obtains the private key.
LoadKey ==
    /\ ~keyResult.done
    /\ LET r == IF keyConf.hasPEM THEN ParseEd25519PrivateKey(keyConf.pem)
                ELSE IF keyConf.path # "" THEN GetEd25519PrivateKeyFromFile(keyConf)
                ELSE [key |-> "",
                      err |-> "either PrivateKeyPEM or PrivateKeyFilePath must be provided"]
       IN  keyResult' = [done |-> TRUE, key |-> r.key, err |-> r.err]
    /\ UNCHANGED <<clientVars, busVars, subscriptions, decodeVars, sendVars, keyConf,
                   logonData>>

SpecKey == InitKey /\ [][LoadKey]_vars

\* Variant: every signature draws on something new, here the number of
\* signatures made before it.
SignNonceFresh(privateKey, message) == <<privateKey, message, Len(logonData)>>

\* crypto.go:71  ed25519.Sign derives the nonce of a signature from the private
\* key and the message, and from nothing else.
SignNonce(privateKey, message) == <<privateKey, message>>

\* crypto.go:64-74  the payload is the five fields joined by SOH; the result is
\* the base64 text of the signature of the payload.
GetLogonRawData(privateKey, sender, target, sendingTime) ==
    LET fields == <<"A", sender, target, "1", sendingTime>>
        payload == [i \in 1..(2 * Len(fields) - 1) |->
                        IF i % 2 = 1 THEN fields[(i + 1) \div 2] ELSE "SOH"]
        signature == [signer |-> privateKey, message |-> payload,
                      nonce |-> SignNonce(privateKey, payload)]
    IN  [base64 |-> signature]

\* crypto.go:64  one invocation of GetLogonRawData.
GetLogonRawDataCalled(privateKey, sender, target, sendingTime) ==
    /\ Len(logonData) < MaxLogons
    /\ logonData' = Append(logonData,
                           [args |-> <<privateKey, sender, target, sendingTime>>,
                            out |-> GetLogonRawData(privateKey, sender, target,
                                                    sendingTime)])
    /\ UNCHANGED <<clientVars, busVars, subscriptions, decodeVars, sendVars, keyConf,
                   keyResult>>

\* Invocations with any arguments, in any order.
SpecLogon ==
    InitCall /\ [][\E k \in {"key1", "key2"}, s \in {"BOETRADE", "BMDWATCH"},
                      t \in {"SPOT", "TEST"},
                      st \in {"20240101-00:00:00.000", "20240101-00:00:01.000"} :
                        GetLogonRawDataCalled(k, s, t, st)]_vars

\* ================================================================= claims
ClosedResult == [resp |-> NoMsg, err |-> ErrClosed]
Cancelled(t) == pc[t] = "returned" /\ result[t].err \in CtxErrors
Unresolved(t) == ~ChanReady(done[t])

\* C1: when the connection is not authorized as send is called, send returns
\* ErrClosed, hands nothing to the session engine and leaves the pending-call
\* set as it was.
C1_SendClosedNoLeak ==
    [][\A t \in Calls :
          (pc[t] = "idle" /\ pc'[t] # "idle" /\ ~isConnected)
              => /\ pc'[t] = "returned"
                 /\ result'[t] = ClosedResult
                 /\ pending' = pending
                 /\ wire' = wire]_vars

\* C1 witness: a send was refused with ErrClosed while an earlier call is pending.
C1_Witness ==
    \E t \in Calls, i \in Ids :
        /\ pc[t] = "returned" /\ result[t] = ClosedResult
        /\ pending[i] # NoCall /\ pending[i] # t

\* C2: when the session engine refuses the transmission, send returns that
\* error with no entry left under its id, and its call never is in the
\* pending-call set afterwards: the id is free for a fresh call.
C2_SendFailRollsBack ==
    /\ [][\A t \in Calls :
             (pc[t] = "rollback" /\ pc'[t] = "returned")
                 => /\ result'[t] = [resp |-> NoMsg, err |-> ErrSend]
                    /\ pending'[tid[t]] = NoCall]_vars
    /\ [](\A t \in Calls :
             (pc[t] = "returned" /\ result[t].err = ErrSend) => pending[tid[t]] # t)

\* C2 witness: after a refused send, a later send with the same id registered
\* its own call.
C2_Witness ==
    \E t, u \in Calls :
        /\ pc[t] = "returned" /\ result[t].err = ErrSend
        /\ u # t /\ tid[u] = tid[t] /\ pending[tid[u]] = u

\* C3: a response completes only the call made under the response's id: a
\* delivery touches the completion channel of no other call, and no waiter
\* returns a response that carries another id.
C3_ResponseOnlyToOwnWaiter ==
    /\ [][\A t \in Calls :
             (response'[t] # response[t] \/ Len(done'[t].buf) > Len(done[t].buf))
                 => tid[t] = dmsg.reqId]_vars
    /\ [](\A t \in Calls :
             /\ response[t] # NoMsg => response[t].reqId = tid[t]
             /\ (pc[t] = "returned" /\ result[t].resp # NoMsg)
                    => result[t].resp.reqId = tid[t])

\* C3 witness: two calls wait under distinct ids, one has its response, the
\* other is still unresolved.
C3_Witness ==
    \E t, u \in Calls :
        /\ tid[t] # tid[u]
        /\ pc[t] = "waiting" /\ ChanReady(done[t]) /\ response[t].reqId = tid[t]
        /\ pc[u] = "waiting" /\ Unresolved(u) /\ pending[tid[u]] = u

\* C4: every call is resolved once, by its response or by a cancellation,
\* never by both, and a resolved call is no longer in the pending-call set.
C4_ResolvedOnceThenRemoved ==
    \A t \in Calls :
        /\ ~(response[t] # NoMsg /\ Cancelled(t))
        /\ (response[t] # NoMsg \/ Cancelled(t)) => pending[tid[t]] # t

\* C5: when wait exits on its deadline or on cancellation, the entry of its
\* call is removed from the pending-call set.
C5_CancelledWaitUnregisters ==
    [][\A t \in Calls :
          (pc[t] = "waiting" /\ pc'[t] = "returned" /\ result'[t].err \in CtxErrors)
              => pending'[tid[t]] # t]_vars

\* C6: when the connection drops, every call a waiter is blocked on is
\* completed with the closed-connection error.
C6_DropResolvesWaiters ==
    [][\A t \in Calls :
          (isConnected /\ ~isConnected' /\ pc[t] = "waiting" /\ Unresolved(t))
              => (done'[t].closed \/ done'[t].buf = <<ErrClosed>>)]_vars

\* C7: wait on an unresolved call with a ctx that is done can return at once,
\* and returns the error of the ctx and no response.
C7_ElapsedDeadlineReturnsAtOnce ==
    /\ [](\A t \in Calls :
             (~crashed /\ pc[t] = "waiting" /\ ctx[t] # "live" /\ Unresolved(t))
                 => ENABLED WaitCtx(t))
    /\ [][\A t \in Calls :
             (pc[t] = "waiting" /\ ctx[t] # "live" /\ Unresolved(t)
                  /\ pc'[t] # "waiting")
                 => result'[t] = [resp |-> NoMsg, err |-> ctx[t]]]_vars

\* C7 witness: a wait returned the deadline error of its ctx; its call got no
\* response.
C7_Witness ==
    \E t \in Calls :
        /\ pc[t] = "returned" /\ result[t] = [resp |-> NoMsg, err |-> DeadlineExceeded]
        /\ response[t] = NoMsg /\ Unresolved(t)

\* C8: Start that runs into the logon deadline returns "logon timed out" and
\* leaves the session engine as it is.
C8_LogonTimeoutKeepsEngine ==
    [][(startPc = "polling" /\ startPc' = "returned" /\ startResult' # NilErr)
          => (startResult' = ErrLogonTimeout /\ initiator' = initiator)]_vars

\* C8 witness: Start returned "logon timed out" and the engine still runs.
C8_Witness ==
    /\ startPc = "returned" /\ startResult = ErrLogonTimeout
    /\ initiator = "running" /\ ~isConnected

\* C9: Start returns nil only on seeing the authorized flag set, returns the
\* timeout error at the first poll after the deadline, and always returns.
C9_StartTerminates ==
    /\ [][(startPc = "polling" /\ startPc' = "returned" /\ startResult' = NilErr)
             => isConnected]_vars
    /\ [][(startPc = "polling" /\ startPc' # "polling"
              /\ (clock >= LogonTimeoutTicks \/ startCtx # "live"))
             => (startPc' = "returned" /\ startResult' = ErrLogonTimeout)]_vars
    /\ (startPc \in {"polling", "sleeping"} ~> startPc = "returned")

\* C9 witness: Start returned nil after polling for a while.
C9_Witness ==
    startPc = "returned" /\ startResult = NilErr /\ clock > 0 /\ isConnected

\* C10: Stop tells the engine to stop whatever the connection state, and a
\* further Stop changes nothing.
C10_StopIdempotent ==
    [][stopCalls' # stopCalls
          => /\ initiator' = "stopped"
             /\ initiator = "stopped"
                    => UNCHANGED <<isConnected, initiator, mu, pending, callVars, wire,
                                   threadVars, deliveryVars, startVars, crashed>>]_vars

\* C10 witness: Stop was called twice and the engine is stopped.
C10_Witness ==
    stopCalls = 2 /\ initiator = "stopped" /\ ~isConnected

\* Events published while the inbound message in hand was handled.
EventsOfMessage == SelectSeq(published, LAMBDA e : e.msg = inboundNo)
TopicsOfMessage == [i \in DOMAIN EventsOfMessage |-> EventsOfMessage[i].topic]
HasKeyword(str) ==
    Contains(ToLower(str), KwMaintenance) \/ Contains(ToLower(str), KwReconnect)

\* C11: a notice whose body contains a maintenance keyword publishes exactly
\* one maintenance event, which carries the headline and the text of the
\* notice; a reconnect-needed event follows if and only if the sender identity
\* is the market-data one, so an order-entry session publishes the maintenance
\* event alone.
C11_MaintenanceNoticeEvents ==
    (hpc = "idle" /\ hmsg.msgType = "B" /\ HasKeyword(GetStringOrEmpty(hmsg.body.text)))
        => /\ TopicsOfMessage = IF senderCompID = BMDWATCH
                                THEN <<MaintenanceTopic, ReconnectNeededTopic>>
                                ELSE <<MaintenanceTopic>>
           /\ EventsOfMessage[1].payload =
                  [headline |-> GetStringOrEmpty(hmsg.body.headline),
                   text |-> GetStringOrEmpty(hmsg.body.text)]

\* C11 witness: the notice "Scheduled maintenance, please reconnect" was
\* handled on a market-data session and both events were published and taken
\* by their listeners.
C11_Witness ==
    /\ hpc = "idle" /\ hmsg.msgType = "B" /\ hmsg.body.text = Field(TxSpec)
    /\ senderCompID = BMDWATCH
    /\ TopicsOfMessage = <<MaintenanceTopic, ReconnectNeededTopic>>
    /\ received[1] # <<>> /\ received[2] # <<>>

\* C12: a notice publishes a maintenance event if and only if its headline or
\* its body contains "maintenance" or "reconnect" in any letter case; with
\* neither keyword in either field it publishes nothing.
C12_KeywordInEitherField ==
    (hpc = "idle" /\ hmsg.msgType = "B")
        => LET keyword == \/ HasKeyword(GetStringOrEmpty(hmsg.body.headline))
                          \/ HasKeyword(GetStringOrEmpty(hmsg.body.text))
           IN  /\ (\E i \in DOMAIN TopicsOfMessage : TopicsOfMessage[i] = MaintenanceTopic)
                      <=> keyword
               /\ ~keyword => EventsOfMessage = <<>>

\* Times a listener's callback started for an event.
Deliveries(l, no) == Cardinality({i \in DOMAIN received[l] : received[l][i] = no})

\* C13: an event is delivered once to each listener that was subscribed to its
\* topic when it was published, once its publication is over, and never
\* twice; a listener that was not subscribed then, subscribed later or to
\* another topic, never receives it.
C13_DeliveredOnceNoReplay ==
    \A k \in DOMAIN published : \A l \in Listeners :
        LET e == published[k] IN
        /\ l \notin e.subs => Deliveries(l, e.no) = 0
        /\ l \in e.subs => Deliveries(l, e.no) <= 1
        /\ (l \in e.subs /\ (e.no < Len(published) \/ hpc = "idle"))
               => Deliveries(l, e.no) = 1

\* C13 witness: two events went out on one topic; the listener subscribed
\* before the first got both, the listener subscribed in between got the
\* second only.
C13_Witness ==
    /\ Len(published) = 2 /\ published[1].topic = published[2].topic
    /\ published[1].subs = {1} /\ published[2].subs = {1, 2}
    /\ received[1] = <<1, 2>> /\ received[2] = <<2>>
    /\ hpc = "idle"

\* C14: for one listener, the callbacks for the events of one topic start in
\* the order in which the events were published.
C14_PerListenerFifo ==
    \A l \in Listeners : \A i, j \in DOMAIN received[l] :
        (i < j /\ published[received[l][i]].topic = published[received[l][j]].topic)
            => received[l][i] < received[l][j]

\* C15: while one listener is still inside its callback for an event, every
\* other listener of the event can take it, and once they have, the delivery
\* path can leave the publication and go on to the next inbound message.
C15_SlowListenerNoStall ==
    \A l \in Listeners, no \in DOMAIN published :
        (hpc = "publish" /\ <<l, no>> \in running /\ no = Len(published))
            => /\ \A k \in Listeners : <<k, no>> \in spawned => ENABLED ListenerStart(k, no)
               /\ (spawned \cup running = {<<l, no>>}) => ENABLED HandlerReturn

\* C16: an execution report whose decoding fails, a rejection included, is not
\* dropped: handling it publishes the error on the execution report topic.
C16_DecodeErrorPublished ==
    [][(inboundNo' = inboundNo + 1 /\ hmsg'.msgType = "8"
           /\ DecodeExecutionReport(hmsg'.body).err # NilErr)
          => /\ Len(published') = Len(published) + 1
             /\ published'[Len(published')].topic = ExecutionReportTopic]_vars

\* C17: SubscribeToTrades, UnsubscribeFromTrades and SendWithoutResponse,
\* whether they succeed or fail, leave the pending-call set as it was.
C17_FireForgetKeepsPending ==
    [][sendCalls' # sendCalls => pending' = pending]_vars

\* C17 witness: two of these sends were made while a call was pending, the
\* last one a trade unsubscription that failed.
C17_Witness ==
    /\ sendCalls = 2
    /\ fireForget.op = "UnsubscribeFromTrades" /\ fireForget.err # NilErr
    /\ \E i \in Ids : pending[i] # NoCall

\* C18: a report with status Rejected and a reason text that is present and
\* not empty decodes to an error whose message is that text and to the empty
\* Order, whatever its other tags are.
C18_RejectionWithReasonIsError ==
    (decodeResult.done /\ report.status = Tag("8")
         /\ report.text.has /\ report.text.val # "")
        => /\ decodeResult.err = report.text.val
           /\ decodeResult.order = EmptyOrder

\* C18 witness: a rejection with its reason was decoded to that reason, though
\* the report carries neither Symbol nor a numeric OrderID.
C18_Witness ==
    /\ decodeResult.done /\ report.status = Tag("8")
    /\ report.text = Tag("Insufficient balance")
    /\ ~report.symbol.has /\ report.orderID = Field(<<"1", "x">>)
    /\ decodeResult.err = "Insufficient balance"

\* C19: DecodeExecutionReport never returns, with a nil error, an Order whose
\* status is Rejected, not even when the reason text is absent or empty.
C19_RejectedNeverAnOrder ==
    decodeResult.done
        => ~(decodeResult.err = NilErr /\ decodeResult.order.Status = OrderStatusRejected)

\* C20: an Order returned with a nil error and status Filled has a cumulative
\* quantity that is at most its order quantity.
C20_FilledWithinOrderQty ==
    (decodeResult.done /\ decodeResult.err = NilErr
         /\ decodeResult.order.Status = OrderStatusFilled)
        => decodeResult.order.CumQty <= decodeResult.order.OrderQty

\* C21: a decoded trade takes its price from tag 270 when the message has it
\* (a malformed tag 270 fails the decoding, tag 31 is not consulted); without
\* tag 270 and with a well-formed tag 31 the decoding succeeds with the value of
\* tag 31 whenever the other fields decode; without both tags it fails with an
\* error and returns the empty Trade.
C21_PriceFallback ==
    LET m == report
        othersDecode == /\ m.symbol.has
                        /\ getTradeID(m).has /\ getTradeID(m).ok
                        /\ (IF m.size.has THEN m.size ELSE m.lastQty).has
                        /\ m.time.has
    IN  decodeResult.done =>
          /\ (decodeResult.err = NilErr /\ m.px.has) => decodeResult.trade.Price = m.px.val
          /\ (m.px.has /\ ~m.px.ok) => decodeResult.err # NilErr
          /\ (~m.px.has /\ m.lastPx.has /\ m.lastPx.ok /\ othersDecode) =>
                (decodeResult.err = NilErr /\ decodeResult.trade.Price = m.lastPx.val)
          /\ (~m.px.has /\ ~m.lastPx.has) =>
                (decodeResult.err # NilErr /\ decodeResult.trade = EmptyTrade)

C21_Witness ==
    /\ decodeResult.done
    /\ ~report.px.has /\ report.lastPx.has
    /\ decodeResult.err = NilErr
    /\ decodeResult.trade.Price = report.lastPx.val

\* C22: a decoded trade takes its identifier from tag 1003 when the message has
\* it and otherwise from tag 571; when the message has neither tag the decoding
\* fails with an error and returns the empty Trade, whatever the other fields.
C22_TradeIdFallback ==
    LET m == report
        othersDecode == /\ m.symbol.has
                        /\ getTradePrice(m).has /\ getTradePrice(m).ok
                        /\ (IF m.size.has THEN m.size ELSE m.lastQty).has
                        /\ m.time.has
    IN  decodeResult.done =>
          /\ (decodeResult.err = NilErr /\ m.tradeID.has) =>
                decodeResult.trade.TradeID = ParseInt(m.tradeID.val).val
          /\ (m.tradeID.has /\ ~ParseInt(m.tradeID.val).ok) => decodeResult.err # NilErr
          /\ (~m.tradeID.has /\ m.reportID.has /\ ParseInt(m.reportID.val).ok /\ othersDecode) =>
                /\ decodeResult.err = NilErr
                /\ decodeResult.trade.TradeID = ParseInt(m.reportID.val).val
          /\ (~m.tradeID.has /\ ~m.reportID.has) =>
                (decodeResult.err # NilErr /\ decodeResult.trade = EmptyTrade)

C22_Witness ==
    /\ decodeResult.done
    /\ ~report.tradeID.has /\ report.reportID.has
    /\ decodeResult.err = NilErr
    /\ decodeResult.trade.TradeID = 12

\* C23: an execution report whose status, side, order type or time in force
\* is outside the known values decodes whenever its other fields decode, and
\* the field of the returned Order is then the empty string.
C23_UnknownEnumIsZeroValue ==
    LET m == report
        o == decodeResult.order
        othersDecode == /\ m.status.has
                        /\ ~(m.status.val = "8" /\ m.text.has /\ m.text.val # "")
                        /\ m.symbol.has
                        /\ m.orderID.has /\ ParseInt(m.orderID.val).ok
                        /\ m.price.ok /\ m.orderQty.ok /\ m.cumQty.ok
                        /\ m.ordType.has /\ m.side.has
    IN  (decodeResult.done /\ othersDecode) =>
          /\ decodeResult.err = NilErr
          /\ m.status.val \notin {"0", "1", "2", "4", "6", "8", "A", "C"} => o.Status = ""
          /\ m.side.val \notin {"1", "2"} => o.Side = ""
          /\ m.ordType.val \notin {"1", "2", "3", "4"} => o.Type = ""
          /\ (m.timeInForce.has /\ m.timeInForce.val \notin {"1", "3", "4"})
                => o.TimeInForce = ""

C23_Witness ==
    /\ decodeResult.done
    /\ decodeResult.err = NilErr
    /\ report.status.val = "3" /\ decodeResult.order.Status = ""
    /\ report.side.val = "9" /\ decodeResult.order.Side = ""
    /\ report.ordType.val = "P" /\ decodeResult.order.Type = ""
    /\ report.timeInForce.val = "9" /\ decodeResult.order.TimeInForce = ""

C25_KeyErrorKinds ==
    LET given == keyConf.hasPEM \/ keyConf.path = "key.pem"
        data == IF keyConf.hasPEM THEN keyConf.pem ELSE keyConf.file
        missing == ~given \/ data = EmptyData
        invalid == given /\ data # EmptyData
                         /\ (data.block # "PRIVATE KEY" \/ data.der # "ed25519")
    IN  keyResult.done =>
          /\ invalid => keyResult.err = ErrInvalidEd25519Key
          /\ missing => keyResult.err = ErrNilPrivateKeyValue
          /\ invalid => keyResult.err # ErrNilPrivateKeyValue
          /\ missing => keyResult.err # ErrInvalidEd25519Key

\* C26: the request SubscribeToTrades or UnsubscribeFromTrades builds for a
\* list of symbols carries a symbol group whose count is the length of the list
\* and whose entries, read back in order, are the list: one entry per input
\* symbol, in the input order, duplicates kept.
C26_SymbolGroupRoundTrip ==
    fireForget.op \in {"SubscribeToTrades", "UnsubscribeFromTrades"} =>
        LET group == fireForget.msg.symbols
        IN  /\ group.count = Len(fireForget.args)
            /\ Len(group.entries) = group.count
            /\ [i \in 1..group.count |-> group.entries[i].tag55] = fireForget.args

C26_Witness ==
    /\ fireForget.op = "SubscribeToTrades"
    /\ fireForget.sent
    /\ fireForget.args = <<"ETHUSDT", "ETHUSDT">>
    /\ fireForget.msg.symbols.count = 2
    /\ fireForget.msg.symbols.entries[2].tag55 = "ETHUSDT"

\* C27: every insert and delete on the pending-call map is made by a goroutine
\* that holds the client's mutex: the insert of send, like the delete of the
\* rollback and the lookup and delete of the delivery, runs with c.mu held by
\* the one that makes it, so that no two accesses run at the same time.
C27_PendingAccessUnderMutex ==
    [][/\ \A t \in Calls : (pc[t] = "insert" /\ pc'[t] # "insert") => mu = t
       /\ \A t \in Calls : (pc[t] = "rollback" /\ pc'[t] # "rollback") => mu = t
       /\ (dpc = "locked" /\ dpc' # "locked") => mu = Delivery
       /\ pending' # pending => mu # 0]_vars

\* C28: the delivery that found a call can always complete it at once: the one
\* resolution a call gets is written to a completion channel that is empty and
\* holds one value, whether the waiter still waits or has left on its ctx.
C28_ResolveNeverBlocks ==
    /\ []((dpc = "locked" /\ ~crashed) => ENABLED FromAppDeliver)
    /\ [][\A t \in Calls :
             Len(done'[t].buf) > Len(done[t].buf)
                 => /\ done[t].buf = <<>>
                    /\ dpc = "locked" /\ dpc' = "idle"]_vars

\* C28 witness: a call whose waiter had left on its ctx was resolved by a late
\* response, which stays in the completion channel, unread; another call is
\* still waiting.
C28_Witness ==
    \E t, u \in Calls :
        /\ Cancelled(t) /\ done[t].buf = <<NilErr>> /\ response[t] # NoMsg
        /\ result[t].resp = NoMsg
        /\ pc[u] = "waiting"

C30_TradeCallbacksOfSymbol ==
    /\ [][inboundNo' # inboundNo =>
             IF ~hmsg'.body.symbol.has
                \/ (~hmsg'.body.tradeID.has /\ ~hmsg'.body.reportID.has)
             THEN published' = published /\ spawned' = spawned /\ hpc' = "idle"
             ELSE LET e == published'[Len(published')] IN
                     /\ Len(published') = Len(published) + 1
                     /\ e.topic = hmsg'.body.symbol.val
                     /\ e.subs = Range(subscriptions[e.topic])]_vars
    /\ [][spawned' \ spawned # {} =>
             /\ hpc = "notify"
             /\ spawned' \ spawned =
                    {<<l, Len(published)>> : l \in published[Len(published)].subs}]_vars
    /\ [](\A no \in DOMAIN published : \A l \in Listeners :
             LET started == Deliveries(l, no) + (IF <<l, no>> \in spawned THEN 1 ELSE 0)
             IN  /\ started <= 1
                 /\ l \notin published[no].subs => started = 0
                 /\ (l \in published[no].subs /\ (no < Len(published) \/ hpc = "idle"))
                        => started = 1)

\* C30 witness: Unsubscribe returned while HandleTradeMessage was between
\* reading the callbacks and starting them, and a callback read before the
\* Unsubscribe has run for the trade, the other is about to.
C30_Witness ==
    /\ Len(published) = 1 /\ hpc = "idle"
    /\ published[1].subs = {1, 2}
    /\ subscriptions[published[1].topic] = <<>>
    /\ received[1] = <<1>> /\ <<2, 1>> \in spawned

====
